---- MODULE Spec2Model ----
(***************************************************************************)
(* Model of the max_values crate: MaxValues<T, N>, a fixed-capacity binary *)
(* heap kept in an ArrayVec<T, N>, with push (push_back / push_forward),   *)
(* FromIterator::from_iter and the iterator adaptor max_values::<N>().     *)
(*                                                                         *)
(* Rust indexes the backing array from 0 and the algorithm numbers the     *)
(* heap nodes from 1 (`index`), reading self.data[index - 1].  TLA+        *)
(* sequences are indexed from 1, so self.data[index - 1] is d[index] and   *)
(* self.data[0] is d[1].                                                   *)
(*                                                                         *)
(* An element of T is a record [key, id]: Ord compares the key only, the   *)
(* id tells two equal-comparing elements apart (id = ordinal of the push   *)
(* that offered the element).                                              *)
(***************************************************************************)
EXTENDS Integers, Sequences, FiniteSets

\* ---- bounds of the model ----
MaxN == 4          \* capacities 0..MaxN
MaxKey == 3        \* keys 1..MaxKey
MaxPushes == 5     \* number of push calls on one container

Keys == 1..MaxKey

VARIABLES
    N,        \* const generic N of MaxValues<T, N>
    data,     \* self.data : ArrayVec<T, N>
    fault,    \* TRUE once a push panicked (index out of bounds / capacity)
    pushed,   \* every value handed to push so far, in call order
    prev,     \* self.data as it was before the last push
    last,     \* what the last push did: path taken, final cursor, swaps,
              \* positions of self.data it indexed
    out       \* result of the last from_iter / max_values call

vars == <<N, data, fault, pushed, prev, last, out>>

\* T: Ord, `a > b`
Gt(a, b) == a.key > b.key

\* ArrayVec::swap on 1-based positions
Swap(d, i, j) == [d EXCEPT ![i] = d[j], ![j] = d[i]]

Result(d, f, kind, index, swaps, seen) ==
    [data |-> d, fault |-> f, kind |-> kind, index |-> index, swaps |-> swaps,
     seen |-> seen]

\* slice indexing: a position outside the occupied prefix panics
InBounds(d, positions) == positions \subseteq 1..Len(d)

\* sift-up that never compares with the root
RECURSIVE PushBackLoopSkipRoot(_, _, _, _)
PushBackLoopSkipRoot(d, index, swaps, seen) ==
    IF index > 2
    THEN LET reads == {index \div 2, index}
         IN  IF Gt(d[index \div 2], d[index])
             THEN PushBackLoopSkipRoot(Swap(d, index \div 2, index), index \div 2,
                                       swaps + 1, seen \cup reads)
             ELSE Result(d, FALSE, "back", index, swaps, seen \cup reads)
    ELSE Result(d, FALSE, "back", index, swaps, seen)

\* sift-up that walks to the neighbouring slot instead of the parent
RECURSIVE PushBackLoopLinear(_, _, _, _)
PushBackLoopLinear(d, index, swaps, seen) ==
    IF index > 1
    THEN LET reads == {index - 1, index}
         IN  IF Gt(d[index - 1], d[index])
             THEN PushBackLoopLinear(Swap(d, index - 1, index), index - 1,
                                     swaps + 1, seen \cup reads)
             ELSE Result(d, FALSE, "back", index, swaps, seen \cup reads)
    ELSE Result(d, FALSE, "back", index, swaps, seen)

\* the while loop of push_back (sift-up)
RECURSIVE PushBackLoop(_, _, _, _)
PushBackLoop(d, index, swaps, seen) ==
    IF index > 1
    THEN LET reads == {index \div 2, index}
         IN  IF ~InBounds(d, reads)
             THEN Result(d, TRUE, "panic", index, swaps, seen \cup reads)
             ELSE IF Gt(d[index \div 2], d[index])
                  THEN PushBackLoop(Swap(d, index \div 2, index), index \div 2,
                                    swaps + 1, seen \cup reads)
                  ELSE Result(d, FALSE, "back", index, swaps, seen \cup reads)
    ELSE Result(d, FALSE, "back", index, swaps, seen)

\* push_back: ArrayVec::push panics when the vector is full
PushBack(d, value, n) ==
    IF Len(d) >= n
    THEN Result(d, TRUE, "panic", 0, 0, {})
    ELSE PushBackLoop(Append(d, value), Len(d) + 1, 0, {Len(d) + 1})

\* sift-down that admits a lone left child but reads the right child anyway
RECURSIVE SiftDownUnguardedRight(_, _, _, _)
SiftDownUnguardedRight(d, index, swaps, seen) ==
    IF index * 2 <= Len(d)
    THEN LET left == index * 2
             right == index * 2 + 1
             reads == {left, right, index}
         IN  IF ~InBounds(d, reads)
             THEN Result(d, TRUE, "panic", index, swaps, seen \cup reads)
             ELSE LET j == IF Gt(d[left], d[right]) THEN right ELSE left
                  IN  IF Gt(d[index], d[j])
                      THEN SiftDownUnguardedRight(Swap(d, index, j), j, swaps + 1,
                                                  seen \cup reads)
                      ELSE Result(d, FALSE, "replace", index, swaps, seen \cup reads)
    ELSE Result(d, FALSE, "replace", index, swaps, seen)

\* the while loop of push_forward (sift-down); `&&` short-circuits, so the
\* children are read at line 38 only when right <= len
RECURSIVE SiftDown(_, _, _, _)
SiftDown(d, index, swaps, seen) ==
    IF index * 2 < Len(d)
    THEN LET left == index * 2
             right == index * 2 + 1
             reads38 == IF right <= Len(d) THEN {left, right} ELSE {}
         IN  IF ~InBounds(d, reads38)
             THEN Result(d, TRUE, "panic", index, swaps, seen \cup reads38)
             ELSE LET j == IF right <= Len(d) /\ Gt(d[left], d[right])
                           THEN right ELSE left
                      reads == reads38 \cup {index, j}
                  IN  IF ~InBounds(d, reads)
                      THEN Result(d, TRUE, "panic", index, swaps, seen \cup reads)
                      ELSE IF Gt(d[index], d[j])
                           THEN SiftDown(Swap(d, index, j), j, swaps + 1,
                                         seen \cup reads)
                           ELSE Result(d, FALSE, "replace", index, swaps,
                                       seen \cup reads)
    ELSE Result(d, FALSE, "replace", index, swaps, seen)

\* push_forward without the early return
PushForwardAlways(d, value) ==
    IF Len(d) = 0
    THEN Result(d, TRUE, "panic", 0, 0, {1})
    ELSE SiftDown([d EXCEPT ![1] = value], 1, 0, {1})

\* push_forward with the comparison turned around
PushForwardFlipped(d, value) ==
    IF Len(d) = 0
    THEN Result(d, TRUE, "panic", 0, 0, {1})
    ELSE IF Gt(value, d[1])
         THEN Result(d, FALSE, "discard", 0, 0, {1})
         ELSE SiftDown([d EXCEPT ![1] = value], 1, 0, {1})

\* push_forward: self.data[0] panics on an empty vector
PushForward(d, value) ==
    IF Len(d) = 0
    THEN Result(d, TRUE, "panic", 0, 0, {1})
    ELSE IF Gt(d[1], value)
         THEN Result(d, FALSE, "discard", 0, 0, {1})
         ELSE SiftDown([d EXCEPT ![1] = value], 1, 0, {1})

\* push with the capacity test off by one
PushOffByOne(d, value, n) ==
    IF Len(d) + 1 < n THEN PushBack(d, value, n) ELSE PushForward(d, value)

\* push
Push(d, value, n) ==
    IF Len(d) < n THEN PushBack(d, value, n) ELSE PushForward(d, value)

\* MaxValues::new
New == << >>

\* from_iter: new(), then push every item in order; a panic ends the fold
RECURSIVE FromIterLoop(_, _, _)
FromIterLoop(values, iter, n) ==
    IF iter = << >> \/ values.fault
    THEN values
    ELSE LET r == Push(values.data, Head(iter), n)
         IN  FromIterLoop([data |-> r.data, fault |-> r.fault], Tail(iter), n)

Reverse(s) == [i \in 1..Len(s) |-> s[Len(s) + 1 - i]]

\* from_iter consuming the items back to front
FromIterReversed(iter, n) ==
    FromIterLoop([data |-> New, fault |-> FALSE], Reverse(iter), n)

FromIter(iter, n) == FromIterLoop([data |-> New, fault |-> FALSE], iter, n)

\* into_iter: yields the stored elements front to back
IntoIter(d) == [i \in 1..Len(d) |-> d[i]]

\* as_values / as_ref / to_values: the stored ArrayVec itself
AsValues(d) == d

\* max_values::<N>(): from_iter(self).into_iter()
MaxValuesIter(iter, n) ==
    LET values == FromIter(iter, n)
    IN  [data |-> IntoIter(values.data), fault |-> values.fault]

NoLast == [kind |-> "none", index |-> 0, swaps |-> 0, seen |-> {}]
NoOut == [op |-> "none", src |-> << >>, result |-> [data |-> << >>, fault |-> FALSE]]

Init ==
    /\ N \in 0..MaxN
    /\ data = New
    /\ fault = FALSE
    /\ pushed = << >>
    /\ prev = << >>
    /\ last = NoLast
    /\ out = NoOut

\* values.push(value)
PushAct(k) ==
    /\ ~fault
    /\ Len(pushed) < MaxPushes
    /\ LET value == [key |-> k, id |-> Len(pushed) + 1]
           r == Push(data, value, N)
       IN  /\ data' = r.data
           /\ fault' = r.fault
           /\ pushed' = Append(pushed, value)
           /\ prev' = data
           /\ last' = [kind |-> r.kind, index |-> r.index, swaps |-> r.swaps,
                       seen |-> r.seen]
    /\ UNCHANGED <<N, out>>

\* MaxValues::<T, N>::from_iter(pushed)
FromIterAct ==
    /\ out' = [op |-> "from_iter", src |-> pushed, result |-> FromIter(pushed, N)]
    /\ out' # out
    /\ UNCHANGED <<N, data, fault, pushed, prev, last>>

\* pushed.into_iter().max_values::<N>()
MaxValuesAct ==
    /\ out' = [op |-> "max_values", src |-> pushed, result |-> MaxValuesIter(pushed, N)]
    /\ out' # out
    /\ UNCHANGED <<N, data, fault, pushed, prev, last>>

Next ==
    \/ \E k \in Keys : PushAct(k)
    \/ FromIterAct
    \/ MaxValuesAct

Spec == Init /\ [][Next]_vars

\* ---- vocabulary of the properties ----
Min(a, b) == IF a <= b THEN a ELSE b
Max(a, b) == IF a >= b THEN a ELSE b
Range(s) == {s[i] : i \in 1..Len(s)}
CountKey(s, k) == Cardinality({i \in 1..Len(s) : s[i].key = k})
CountAbove(s, k) == Cardinality({i \in 1..Len(s) : s[i].key > k})
\* copies of key k among the n largest values of s
TopCount(s, n, k) == Min(CountKey(s, k), Max(0, n - CountAbove(s, k)))
IsTopN(d, s, n) == \A k \in Keys : CountKey(d, k) = TopCount(s, n, k)
IsHeap(d) == \A i \in 2..Len(d) : d[i \div 2].key <= d[i].key
MinKey(d) == CHOOSE k \in Keys :
    /\ \E i \in 1..Len(d) : d[i].key = k
    /\ \A i \in 1..Len(d) : k <= d[i].key
LastValue == pushed[Len(pushed)]
WasFull == last.kind # "none" /\ N >= 1 /\ Len(prev) = N

\* C1: for N >= 1, after each push the multiset of stored values is the
\* multiset of the N largest values pushed so far (all of them when fewer
\* than N were pushed).
C1_TopN == N >= 1 => IsTopN(data, pushed, N)

\* C2: for N >= 1, after every push every parent (i-1)/2 of an index i in
\* [1, len) holds an element <= the element at i.
C2_HeapInvariant == N >= 1 => IsHeap(data)

\* C3: after M pushes the number of stored elements is min(M, N); the
\* length never exceeds N and never decreases across a push.
C3_SizeBound ==
    /\ Len(data) = Min(Len(pushed), N)
    /\ Len(data) <= N
    /\ Len(prev) <= Len(data)

C3_Witness == N = 2 /\ Len(pushed) = 4 /\ Len(data) = 2 /\ Len(prev) = 2

\* C4: a push on a full container (N >= 1) of a value <= the root leaves
\* the container unmodified: same elements at the same positions, the
\* incoming element being the one dropped also when it ties with the root.
C4_NoOpWhenNotGreater ==
    (WasFull /\ LastValue.key <= prev[1].key) => data = prev

\* C5: for N = 0 every push completes without a fault and the views
\* report an empty container.
C5_ZeroCapacity == N = 0 => (~fault /\ AsValues(data) = << >>)

\* C6: from_iter over a sequence ends in the same state as new() followed
\* by one push per element in sequence order.
C6_Confluence ==
    (out.op = "from_iter" /\ out.src = pushed)
        => out.result = [data |-> data, fault |-> fault]

C6_Witness ==
    /\ out.op = "from_iter" /\ out.src = pushed
    /\ N = 3 /\ Len(pushed) = 5 /\ last.kind = "replace" /\ last.swaps = 1

\* C7: for N >= 1, max_values::<N>() over M values yields min(M, N) items,
\* each a distinct element of the input, whose multiset is the N largest
\* values of the input.
C7_IteratorAdaptor ==
    (out.op = "max_values" /\ N >= 1) =>
        LET y == out.result.data
        IN  /\ ~out.result.fault
            /\ Len(y) = Min(Len(out.src), N)
            /\ Cardinality(Range(y)) = Len(y)
            /\ Range(y) \subseteq Range(out.src)
            /\ IsTopN(y, out.src, N)

\* C8: a push on a full container (N >= 1) of a value strictly greater
\* than the root removes one copy of the minimum of the stored multiset
\* and adds the pushed value, after any preceding pushes.
C8_DisplacesMinimum ==
    (WasFull /\ LastValue.key > prev[1].key) =>
        \E i \in 1..Len(prev) :
            /\ prev[i].key = MinKey(prev)
            /\ Range(data) = (Range(prev) \ {prev[i]}) \cup {LastValue}
            /\ Len(data) = Len(prev)

\* C9: the sift-down of push_forward stops only at a node that has no
\* child in the occupied prefix or that is not greater than its smaller
\* child; a node with only a left child is compared with it.
C9_SiftDownStop ==
    last.kind = "replace" =>
        LET i == last.index
        IN  \/ 2 * i > Len(data)
            \/ /\ data[i].key <= data[2 * i].key
               /\ (2 * i + 1 <= Len(data) => data[i].key <= data[2 * i + 1].key)

\* C10: for N >= 1, after at least one push the element at index 0 is <=
\* every stored element.
C10_RootIsMinimum ==
    (N >= 1 /\ Len(pushed) >= 1) =>
        \A i \in 1..Len(data) : data[1].key <= data[i].key

\* ---- further vocabulary ----
RECURSIVE Log2(_)
\* floor(log2(n)) for n >= 1
Log2(n) == IF n <= 1 THEN 0 ELSE 1 + Log2(n \div 2)
RECURSIVE Pow2(_)
Pow2(e) == IF e = 0 THEN 1 ELSE 2 * Pow2(e - 1)
MaxKeyOf(s) == CHOOSE k \in Keys :
    /\ \E i \in 1..Len(s) : s[i].key = k
    /\ \A i \in 1..Len(s) : k >= s[i].key
SameKeys(a, b) == \A k \in Keys : CountKey(a, k) = CountKey(b, k)
Bijections(n) == {f \in [1..n -> 1..n] : \A i, j \in 1..n : f[i] = f[j] => i = j}
Permuted(s, f) == [i \in 1..Len(s) |-> s[f[i]]]

\* C11: a push with len < N on a prefix that satisfies the min-heap
\* invariant appends the value, grows len by exactly one, makes the stored
\* multiset the old one plus the pushed value, and its sift-up leaves the
\* min-heap invariant holding on the new prefix.
C11_GrowingPath ==
    (last.kind # "none" /\ Len(prev) < N /\ IsHeap(prev)) =>
        /\ last.kind = "back"
        /\ Len(data) = Len(prev) + 1
        /\ Range(data) = Range(prev) \cup {LastValue}
        /\ LastValue \notin Range(prev)
        /\ IsHeap(data)

C11_Witness ==
    /\ N = 4 /\ Len(prev) = 3 /\ Len(data) = 4
    /\ last.kind = "back" /\ last.swaps = 2 /\ last.index = 1

\* C12: for N >= 1 every position of self.data that a push reads, writes
\* or swaps lies inside the occupied prefix, so no push panics.
C12_NoFaultingAccess ==
    (N >= 1 /\ last.kind # "none") =>
        /\ ~fault
        /\ last.kind # "panic"
        /\ last.seen \subseteq 1..Len(data)

C12_Witness ==
    /\ N = 4 /\ last.kind = "replace" /\ last.swaps = 1
    /\ 3 \in last.seen /\ ~fault

\* C13: every push completes within floor(log2(len)) swaps: the sift-up
\* cursor halves on each swap starting from len, the sift-down cursor at
\* least doubles on each swap starting from 1 and stays inside the prefix.
C13_SwapBound ==
    (N >= 1 /\ last.kind \in {"back", "replace"}) =>
        /\ last.swaps <= Log2(Len(data))
        /\ last.kind = "back" => last.index = Len(data) \div Pow2(last.swaps)
        /\ last.kind = "replace" =>
              (Pow2(last.swaps) <= last.index /\ last.index <= Len(data))

C13_Witness ==
    /\ N = 3 /\ Len(data) = 3 /\ last.kind = "back"
    /\ last.swaps = 1 /\ last.index = 1

\* C14: for N >= 1, after at least one push a value equal to the maximum
\* of all values pushed so far is among the stored elements.
C14_MaximumKept ==
    (N >= 1 /\ Len(pushed) >= 1) =>
        \E i \in 1..Len(data) : data[i].key = MaxKeyOf(pushed)

C14_Witness ==
    /\ N = 2 /\ Len(pushed) = 4 /\ last.kind = "replace"
    /\ ~IsHeap(prev) /\ LastValue.key > MaxKeyOf(prev)

\* C15: once len has reached N (N >= 1) a push leaves len at N, takes the
\* replacement path, and does not decrease the minimum of the stored
\* multiset.
C15_MonotoneOnceFull ==
    WasFull =>
        /\ Len(data) = N
        /\ last.kind \in {"discard", "replace"}
        /\ MinKey(data) >= MinKey(prev)

C15_Witness ==
    /\ WasFull /\ N = 3 /\ last.kind = "replace"
    /\ MinKey(data) > MinKey(prev)

\* C16: for N >= 1, pushing any permutation of the pushed sequence into a
\* fresh container yields the same multiset of stored values.
C16_OrderIndependence ==
    N >= 1 =>
        \A f \in Bijections(Len(pushed)) :
            SameKeys(FromIter(Permuted(pushed, f), N).data, data)

====
